---- MODULE Spec2Model ----
(***************************************************************************)
(* FoldersPreferencesProvider                                              *)
(* (packages/preferences/src/browser/folders-preferences-provider.ts):     *)
(* the registry of per-folder preference providers, its reconciliation     *)
(* against the workspace roots, and the precedence ranking the queries     *)
(* are built on.                                                           *)
(***************************************************************************)
EXTENDS Integers, Sequences, FiniteSets, TLC

\* ------------------------------------------------------------------ bounds
\* Longest workspace-root list.
MaxRoots == 2
\* Number of providers the factory may build in one run (caps workspace churn).
MaxCreated == 8
\* Number of providers whose ready promise may reject.
MaxRejected == 1

\* ------------------------------------------------------------------ URIs
\* A URI is a scheme and a path; a path is its sequence of segments.
Uri(scheme, path) == [scheme |-> scheme, path |-> path]

\* Workspace folders of the model: a folder, a folder nested in it, a sibling,
\* and a folder with the path of the first under another scheme.
Folders ==
    { Uri("file", <<"a">>), Uri("file", <<"a", "b">>),
      Uri("file", <<"c">>), Uri("vfs", <<"a">>) }

\* for (const configPath of ['.theia', '.vscode'])
ConfigPaths == <<".theia", ".vscode">>
\* for (const configFileName of ['launch.json', 'settings.json'])
ConfigFileNames == <<"launch.json", "settings.json">>

\* URI.resolve(segment)
ResolveUri(uri, segment) == [uri EXCEPT !.path = Append(@, segment)]
\* URI.parent
ParentUri(uri) == [uri EXCEPT !.path = SubSeq(@, 1, Len(@) - 1)]
\* URI.toString(): scheme, then the segments of the path
UriToString(uri) == <<uri.scheme, ":">> \o uri.path

\* new URI(folder.uri).resolve(configPath).resolve(configFileName)
ConfigUriOf(folder, configPath, configFileName) ==
    ResolveUri(ResolveUri(folder, configPath), configFileName)

\* Variant of DesiredUris: the loop over the file names encloses the loop over
\* the config directories.
DesiredUrisFilesFirst(rootList) ==
    LET n == Len(ConfigPaths)
        m == Len(ConfigFileNames) * n
    IN  [i \in 1..(Len(rootList) * m) |->
            LET folder == rootList[((i - 1) \div m) + 1]
                k == (i - 1) % m
            IN  [folder |-> folder,
                 configUri |-> ConfigUriOf(folder, ConfigPaths[(k % n) + 1],
                                           ConfigFileNames[(k \div n) + 1])]]

\* The config URIs the three nested loops of updateProviders visit, in order.
RECURSIVE DesiredUris(_)
DesiredUris(rootList) ==
    IF rootList = <<>> THEN <<>>
    ELSE LET folder == Head(rootList)
             n == Len(ConfigFileNames)
             m == Len(ConfigPaths) * n
         IN  [i \in 1..m |->
                [folder |-> folder,
                 configUri |-> ConfigUriOf(folder, ConfigPaths[((i - 1) \div n) + 1],
                                           ConfigFileNames[((i - 1) % n) + 1])]]
             \o DesiredUris(Tail(rootList))

SeqRange(s) == {s[i] : i \in DOMAIN s}

\* Root lists the workspace service may report: distinct folders.
RootLists ==
    {s \in UNION {[1..n -> Folders] : n \in 0..MaxRoots} :
        \A i, j \in DOMAIN s : i # j => s[i] # s[j]}

\* ------------------------------------------------------------------ state
VARIABLES
    roots,          \* workspaceService.tryGetRoots()
    providers,      \* this.providers: Map key -> provider, in insertion order
    created,        \* every provider the factory built; a provider's id is its index
    toDispose,      \* this.toDispose (inherited DisposableCollection)
    pc,             \* position of init()
    coreDisposed,   \* dispose() of the core was called
    readyPromises,  \* ids whose ready promise init() collected
    ready,          \* this._ready
    call,           \* the client call under observation, Idle when there is none
    notification    \* the last change a provider fired and what the core emitted for it

vars == <<roots, providers, created, toDispose, pc, coreDisposed, readyPromises, ready,
          call, notification>>

\* No URI: an absent resourceUri, an undefined configUri.
NoUri == Uri("", <<>>)

\* Resources the clients ask about: under the nested folder (and so under the
\* folders of path a), under the sibling, outside every folder, and none.
Resources ==
    { Uri("file", <<"a", "b", "x">>), Uri("file", <<"c", "x">>),
      Uri("file", <<"z">>), NoUri }

Idle == [op |-> "none"]

\* No provider has fired a change yet.
Quiet == [source |-> 0]

\* ------------------------------------------------------------------ registry
\* this.providers.has(key)
HasKey(provs, key) == \E i \in DOMAIN provs : provs[i].key = key
\* this.providers.get(key)
GetId(provs, key) == (CHOOSE i \in DOMAIN provs : provs[i].key = key)
\* this.providers.delete(key)
DeleteKey(provs, key) == SelectSeq(provs, LAMBDA e : e.key # key)
\* this.providers.keys()
KeysOf(provs) == [i \in DOMAIN provs |-> provs[i].key]
\* this.providers.values()
IdsOf(provs) == [i \in DOMAIN provs |-> provs[i].id]

\* createProvider: the factory builds a provider; the provider and the core's
\* subscription to its change event are pushed into toDispose.
CreateProvider(st, folder, configUri) ==
    LET id == Len(st.created) + 1
    IN  [st EXCEPT
            !.created = Append(@, [folder |-> folder, configUri |-> configUri,
                                   disposed |-> 0, ready |-> "pending"]),
            !.toDispose = @ \o << [kind |-> "provider", id |-> id],
                                  [kind |-> "listener", id |-> id] >>]

\* provider.dispose(): the provider counts the call; a disposable pushed into a
\* DisposableCollection leaves the collection when it is disposed.
DisposeProvider(st, id) ==
    [st EXCEPT
        !.created[id].disposed = @ + 1,
        !.toDispose = SelectSeq(@, LAMBDA e : ~(e.kind = "provider" /\ e.id = id))]

\* Variant of EnsureProvider: the has(key) test is dropped, every visit builds a
\* provider and sets it under the key (Map.set keeps the position of a present key).
EnsureProviderAlways(st, d) ==
    LET key == UriToString(d.configUri)
        st1 == [st EXCEPT !.toDelete = SelectSeq(@, LAMBDA k : k # key)]
        st2 == CreateProvider(st1, d.folder, d.configUri)
        id == Len(st2.created)
    IN  IF HasKey(st1.providers, key)
        THEN [st2 EXCEPT !.providers =
                [i \in DOMAIN @ |-> IF @[i].key = key THEN [key |-> key, id |-> id]
                                     ELSE @[i]]]
        ELSE [st2 EXCEPT !.providers = Append(@, [key |-> key, id |-> id])]

\* One pass of the innermost loop body (lines 57-63).
EnsureProvider(st, d) ==
    LET key == UriToString(d.configUri)
        st1 == [st EXCEPT !.toDelete = SelectSeq(@, LAMBDA k : k # key)]
    IN  IF ~HasKey(st1.providers, key)
        THEN LET st2 == CreateProvider(st1, d.folder, d.configUri)
             IN  [st2 EXCEPT !.providers =
                      Append(@, [key |-> key, id |-> Len(st2.created)])]
        ELSE st1

RECURSIVE EnsureAll(_, _)
EnsureAll(st, desired) ==
    IF desired = <<>> THEN st
    ELSE EnsureAll(EnsureProvider(st, Head(desired)), Tail(desired))

\* Variant of DeleteProvider: the provider is disposed and stays in the map.
DeleteProviderKeepsEntry(st, key) ==
    IF HasKey(st.providers, key)
    THEN DisposeProvider(st, st.providers[GetId(st.providers, key)].id)
    ELSE st

\* One pass of the second loop (lines 68-72).
DeleteProvider(st, key) ==
    IF HasKey(st.providers, key)
    THEN LET id == st.providers[GetId(st.providers, key)].id
         IN  DisposeProvider([st EXCEPT !.providers = DeleteKey(@, key)], id)
    ELSE st

RECURSIVE DeleteAll(_, _)
DeleteAll(st, keys) ==
    IF keys = <<>> THEN st
    ELSE DeleteAll(DeleteProvider(st, Head(keys)), Tail(keys))

\* updateProviders()
UpdateProviders(rootList, provs, crs, td) ==
    LET st0 == [providers |-> provs, created |-> crs, toDispose |-> td,
                toDelete |-> KeysOf(provs)]
        st1 == EnsureAll(st0, DesiredUris(rootList))
    IN  DeleteAll(st1, st1.toDelete)

\* Providers a reconciliation against rootList would build.
NewCount(rootList, provs) ==
    Cardinality({i \in DOMAIN DesiredUris(rootList) :
                    ~HasKey(provs, UriToString(DesiredUris(rootList)[i].configUri))})

\* ------------------------------------------------------------------ readiness
\* Variant of Caught: the rejection handler is missing, the derived promise rejects.
CaughtNot(state) == state

\* provider.ready.catch(e => console.error(e)): a rejection is logged and the
\* derived promise resolves.
Caught(state) == IF state = "rejected" THEN "resolved" ELSE state

\* Promise.all over the derived promises of the collected providers.
PromiseAll(ids, crs) ==
    IF \E id \in ids : Caught(crs[id].ready) = "rejected" THEN "rejected"
    ELSE IF \A id \in ids : Caught(crs[id].ready) = "resolved" THEN "resolved"
    ELSE "pending"

\* ------------------------------------------------------------------ ranking
\* Path.relativity(path): how deeply the folder encloses the resource, -1 when
\* it does not enclose it; a higher value is a more specific folder.
IsPrefix(p, q) == Len(p) <= Len(q) /\ SubSeq(q, 1, Len(p)) = p
Relativity(folderPath, resourcePath) ==
    IF IsPrefix(folderPath, resourcePath) THEN Len(folderPath) ELSE -1

\* provider.getConfigUri(resourceUri): the provider's own config URI when it
\* is applicable to the resource, undefined otherwise.
ProviderConfigUri(crs, id, applicable) ==
    IF id \in applicable THEN crs[id].configUri ELSE NoUri

\* Map.get / Map.set on a Map kept as the sequence of its entries.
MapHas(m, k) == \E i \in DOMAIN m : m[i].key = k
MapGet(m, k) == m[CHOOSE i \in DOMAIN m : m[i].key = k].value
MapSet(m, k, v) ==
    IF MapHas(m, k)
    THEN [i \in DOMAIN m |-> IF m[i].key = k THEN [key |-> k, value |-> v] ELSE m[i]]
    ELSE Append(m, [key |-> k, value |-> v])

\* Variant of RankStep: the running maximum accepts only a strictly higher
\* relativity (relativity < folderRelativity).
RankStepStrict(acc, id, crs, resource, applicable) ==
    LET configUri == ProviderConfigUri(crs, id, applicable)
        folderRelativity == Relativity(crs[id].folder.path, resource.path)
    IN  IF configUri # NoUri /\ folderRelativity >= 0
           /\ acc.relativity < folderRelativity
        THEN [relativity |-> folderRelativity,
              levels |-> MapSet(acc.levels, folderRelativity,
                                << [key |-> UriToString(ParentUri(configUri)),
                                    value |-> <<id>>] >>)]
        ELSE acc

\* Variant of RankStep: the test folderRelativity >= 0 is dropped.
RankStepAnyFolder(acc, id, crs, resource, applicable) ==
    LET configUri == ProviderConfigUri(crs, id, applicable)
        folderRelativity == Relativity(crs[id].folder.path, resource.path)
    IN  IF configUri # NoUri /\ acc.relativity <= folderRelativity
        THEN LET configProviders ==
                     IF MapHas(acc.levels, folderRelativity)
                     THEN MapGet(acc.levels, folderRelativity) ELSE <<>>
                 configPathUri == UriToString(ParentUri(configUri))
                 folderProviders ==
                     IF MapHas(configProviders, configPathUri)
                     THEN MapGet(configProviders, configPathUri) ELSE <<>>
             IN  [relativity |-> folderRelativity,
                  levels |-> MapSet(acc.levels, folderRelativity,
                                    MapSet(configProviders, configPathUri,
                                           Append(folderProviders, id)))]
        ELSE acc

\* Body of the loop of getProviders (lines 127-140) for one provider.
\* acc.levels is the Map relativity -> (config directory -> providers).
RankStep(acc, id, crs, resource, applicable) ==
    LET configUri == ProviderConfigUri(crs, id, applicable)
        folderRelativity == Relativity(crs[id].folder.path, resource.path)
    IN  IF configUri # NoUri /\ folderRelativity >= 0
           /\ acc.relativity <= folderRelativity
        THEN LET configProviders ==
                     IF MapHas(acc.levels, folderRelativity)
                     THEN MapGet(acc.levels, folderRelativity) ELSE <<>>
                 configPathUri == UriToString(ParentUri(configUri))
                 folderProviders ==
                     IF MapHas(configProviders, configPathUri)
                     THEN MapGet(configProviders, configPathUri) ELSE <<>>
             IN  [relativity |-> folderRelativity,
                  levels |-> MapSet(acc.levels, folderRelativity,
                                    MapSet(configProviders, configPathUri,
                                           Append(folderProviders, id)))]
        ELSE acc

RECURSIVE RankLoop(_, _, _, _, _)
RankLoop(acc, ids, crs, resource, applicable) ==
    IF ids = <<>> THEN acc
    ELSE RankLoop(RankStep(acc, Head(ids), crs, resource, applicable),
                  Tail(ids), crs, resource, applicable)

\* getProviders(resourceUri): the ids of the ranked providers, in order.
GetProviders(provs, crs, resource, applicable) ==
    IF resource = NoUri THEN <<>>
    ELSE LET acc == RankLoop([relativity |-> -1, levels |-> <<>>], IdsOf(provs),
                             crs, resource, applicable)
         IN  IF MapHas(acc.levels, acc.relativity)
                /\ MapGet(acc.levels, acc.relativity) # <<>>
             THEN MapGet(acc.levels, acc.relativity)[1].value
             ELSE <<>>

\* ------------------------------------------------------------------ queries
\* Values a provider may hold for a preference.
Values == {"undefined", "null", "v1", "v2"}
Keys == {"a", "b"}
\* provider.getPreferences(): a mapping of some of the keys.
PrefMaps == UNION {[ks -> Values \ {"undefined"}] : ks \in SUBSET Keys}

EmptyResult == [value |-> "undefined", configUri |-> NoUri]

\* Variant of Resolve: a null value is returned like any other (only undefined is
\* skipped).
RECURSIVE ResolveKeepsNull(_, _, _, _)
ResolveKeepsNull(ranked, crs, answers, consulted) ==
    IF ranked = <<>> THEN [result |-> EmptyResult, consulted |-> consulted]
    ELSE LET id == Head(ranked)
         IN  IF answers[id] # "undefined"
             THEN [result |-> [value |-> answers[id], configUri |-> crs[id].configUri],
                   consulted |-> Append(consulted, id)]
             ELSE ResolveKeepsNull(Tail(ranked), crs, answers, Append(consulted, id))

\* resolve(preferenceName, resourceUri) over the ranked providers: answers[id] is
\* the value provider id returns for the preference, with its own config URI.
RECURSIVE Resolve(_, _, _, _)
Resolve(ranked, crs, answers, consulted) ==
    IF ranked = <<>> THEN [result |-> EmptyResult, consulted |-> consulted]
    ELSE LET id == Head(ranked)
         IN  IF answers[id] # "undefined" /\ answers[id] # "null"
             THEN [result |-> [value |-> answers[id], configUri |-> crs[id].configUri],
                   consulted |-> Append(consulted, id)]
             ELSE Resolve(Tail(ranked), crs, answers, Append(consulted, id))

\* Array.prototype.reverse
Reverse(s) == [i \in DOMAIN s |-> s[Len(s) + 1 - i]]

\* Object.assign(target, source)
ObjectAssign(target, source) ==
    [k \in DOMAIN target \cup DOMAIN source |->
        IF k \in DOMAIN source THEN source[k] ELSE target[k]]

\* Variant of MergeLoop: the first writer of a key keeps it.
RECURSIVE MergeLoopKeepFirst(_, _, _)
MergeLoopKeepFirst(result, ids, answers) ==
    IF ids = <<>> THEN result
    ELSE MergeLoopKeepFirst(ObjectAssign(answers[Head(ids)], result), Tail(ids), answers)

\* The loop of getPreferences (lines 102-105) over the reversed ranking.
RECURSIVE MergeLoop(_, _, _)
MergeLoop(result, ids, answers) ==
    IF ids = <<>> THEN result
    ELSE MergeLoop(ObjectAssign(result, answers[Head(ids)]), Tail(ids), answers)

\* getPreferences(resourceUri): answers[id] is what provider id's getPreferences()
\* returns.
GetPreferences(ranked, answers) == MergeLoop(<<>>, Reverse(ranked), answers)

\* Path.name: the last segment of the path without its extension.
PathName(uri) ==
    LET base == uri.path[Len(uri.path)]
    IN  CASE base = "settings.json" -> "settings"
          [] base = "launch.json" -> "launch"
          [] OTHER -> base

\* Variant of GetConfigUriLoop: the test on the file name is dropped.
RECURSIVE GetConfigUriAnyFile(_, _, _, _)
GetConfigUriAnyFile(ids, crs, applicable, consulted) ==
    IF ids = <<>> THEN [result |-> NoUri, consulted |-> consulted]
    ELSE LET configUri == ProviderConfigUri(crs, Head(ids), applicable)
         IN  IF configUri # NoUri
             THEN [result |-> configUri, consulted |-> Append(consulted, Head(ids))]
             ELSE GetConfigUriAnyFile(Tail(ids), crs, applicable,
                                      Append(consulted, Head(ids)))

\* The loop of getConfigUri (lines 77-83); consulted logs the providers asked.
RECURSIVE GetConfigUriLoop(_, _, _, _)
GetConfigUriLoop(ids, crs, applicable, consulted) ==
    IF ids = <<>> THEN [result |-> NoUri, consulted |-> consulted]
    ELSE LET configUri == ProviderConfigUri(crs, Head(ids), applicable)
         IN  IF configUri # NoUri /\ PathName(configUri) = "settings"
             THEN [result |-> configUri, consulted |-> Append(consulted, Head(ids))]
             ELSE GetConfigUriLoop(Tail(ids), crs, applicable,
                                   Append(consulted, Head(ids)))

\* getConfigUri(resourceUri)
GetConfigUri(provs, crs, applicable) == GetConfigUriLoop(IdsOf(provs), crs, applicable, <<>>)

\* ------------------------------------------------------------------ actions
Init ==
    /\ roots \in {r \in RootLists :
                    Len(r) * Len(ConfigPaths) * Len(ConfigFileNames) <= MaxCreated}
    /\ providers = <<>>
    /\ created = <<>>
    /\ toDispose = <<>>
    /\ pc = "awaitRoots"
    /\ coreDisposed = FALSE
    /\ readyPromises = {}
    /\ ready = "pending"
    /\ call = Idle
    /\ notification = Quiet

\* No synchronous client call is running (handlers run to completion).
Schedulable == call.op = "none" \/ (call.op = "setPreference" /\ call.state = "awaiting")

\* init() after `await this.workspaceService.roots`: the startup reconciliation,
\* the subscription to workspace changes, the collection of the ready promises.
Startup ==
    /\ pc = "awaitRoots"
    /\ Schedulable
    /\ LET st == UpdateProviders(roots, providers, created, toDispose)
       IN  /\ providers' = st.providers
           /\ created' = st.created
           /\ toDispose' = st.toDispose
           /\ readyPromises' = SeqRange(IdsOf(st.providers))
    /\ pc' = "started"
    /\ UNCHANGED <<roots, coreDisposed, ready, call,
                 notification>>

\* The workspace roots change and onWorkspaceChanged runs updateProviders().
\* The subscription of line 40 is not kept in toDispose: it outlives dispose().
WorkspaceChanged(newRoots) ==
    /\ pc = "started"
    /\ Schedulable
    /\ newRoots # roots
    /\ Len(created) + NewCount(newRoots, providers) <= MaxCreated
    /\ roots' = newRoots
    /\ LET st == UpdateProviders(newRoots, providers, created, toDispose)
       IN  /\ providers' = st.providers
           /\ created' = st.created
           /\ toDispose' = st.toDispose
    /\ UNCHANGED <<pc, coreDisposed, readyPromises, ready, call,
                 notification>>

RECURSIVE DisposeEntries(_, _)
DisposeEntries(crs, entries) ==
    IF entries = <<>> THEN crs
    ELSE LET e == Head(entries)
         IN  DisposeEntries(
                 IF e.kind = "provider"
                 THEN [crs EXCEPT ![e.id].disposed = @ + 1] ELSE crs,
                 Tail(entries))

\* dispose() of the core (inherited): disposes what toDispose holds.
DisposeCore ==
    /\ ~coreDisposed
    /\ Schedulable
    /\ coreDisposed' = TRUE
    /\ created' = DisposeEntries(created, toDispose)
    /\ toDispose' = <<>>
    /\ UNCHANGED <<roots, providers, pc, readyPromises, ready, call,
                 notification>>

\* Payloads of a provider's change event.
Changes == {"change1", "change2"}

\* The subscriptions of line 149 to provider id's event that are still held:
\* each is disposed with the collection it was pushed into.
ListenersOf(td, id) == SelectSeq(td, LAMBDA e : e.kind = "listener" /\ e.id = id)

\* Variant of Emit: the listener fires the core's emitter without the payload.
EmitNoPayload(td, id, change) == [i \in DOMAIN ListenersOf(td, id) |-> "none"]

\* What the core's emitter fires when provider id fires `change`: every held
\* listener runs `this.onDidPreferencesChangedEmitter.fire(change)`.
Emit(td, id, change) == [i \in DOMAIN ListenersOf(td, id) |-> change]

\* A provider that is not disposed fires its change event; the listeners run
\* synchronously.
FireChange ==
    /\ Schedulable
    /\ \E id \in DOMAIN created, change \in Changes :
         /\ created[id].disposed = 0
         /\ notification' = [source |-> id, change |-> change,
                             registered |-> id \in SeqRange(IdsOf(providers)),
                             emitted |-> Emit(toDispose, id, change)]
    /\ UNCHANGED <<roots, providers, created, toDispose, pc, coreDisposed, readyPromises,
                   ready, call>>

\* A provider's ready promise settles: it resolves or it rejects.
Settle ==
    /\ Schedulable
    /\ \E id \in DOMAIN created, outcome \in {"resolved", "rejected"} :
         /\ created[id].ready = "pending"
         /\ outcome = "rejected" =>
               Cardinality({i \in DOMAIN created : created[i].ready = "rejected"})
                   < MaxRejected
         /\ created' = [created EXCEPT ![id].ready = outcome]
    /\ UNCHANGED <<roots, providers, toDispose, pc, coreDisposed, readyPromises, ready, call,
                 notification>>

\* Promise.all(readyPromises).then(() => this._ready.resolve())
ReadyResolve ==
    /\ pc = "started"
    /\ Schedulable
    /\ ready = "pending"
    /\ PromiseAll(readyPromises, created) = "resolved"
    /\ ready' = "resolved"
    /\ UNCHANGED <<roots, providers, created, toDispose, pc, coreDisposed, readyPromises, call,
                 notification>>

lifecycle == <<roots, providers, created, toDispose, pc, coreDisposed, readyPromises,
               ready, notification>>

\* What the registered providers may answer to getConfigUri(resourceUri): any
\* set of them reports itself applicable to the resource.
Applicabilities == SUBSET SeqRange(IdsOf(providers))

\* A client calls getProviders(resourceUri) (through one of the queries); the
\* providers answer getConfigUri as `applicable` says.
GetProvidersCall ==
    /\ call.op = "none"
    /\ \E resource \in Resources, applicable \in Applicabilities :
         call' = [op |-> "getProviders", state |-> "returned", resource |-> resource,
                  applicable |-> applicable,
                  result |-> GetProviders(providers, created, resource, applicable)]
    /\ UNCHANGED lifecycle

\* A client calls resolve(preferenceName, resourceUri).
ResolveCall ==
    /\ call.op = "none"
    /\ \E resource \in Resources, applicable \in Applicabilities :
         \E ranked \in {GetProviders(providers, created, resource, applicable)} :
            \E answers \in [SeqRange(ranked) -> Values] :
               \E r \in {Resolve(ranked, created, answers, <<>>)} :
                  call' = [op |-> "resolve", state |-> "returned",
                           resource |-> resource, applicable |-> applicable,
                           ranked |-> ranked, answers |-> answers,
                           consulted |-> r.consulted, result |-> r.result]
    /\ UNCHANGED lifecycle

\* A client calls getPreferences(resourceUri).
GetPreferencesCall ==
    /\ call.op = "none"
    /\ \E resource \in Resources, applicable \in Applicabilities :
         \E ranked \in {GetProviders(providers, created, resource, applicable)} :
            \E answers \in [SeqRange(ranked) -> PrefMaps] :
               call' = [op |-> "getPreferences", state |-> "returned",
                        resource |-> resource, applicable |-> applicable,
                        ranked |-> ranked, answers |-> answers,
                        consulted |-> Reverse(ranked),
                        result |-> GetPreferences(ranked, answers)]
    /\ UNCHANGED lifecycle

\* A client calls getConfigUri(resourceUri).
GetConfigUriCall ==
    /\ call.op = "none"
    /\ \E resource \in Resources, applicable \in Applicabilities :
         \E r \in {GetConfigUri(providers, created, applicable)} :
            call' = [op |-> "getConfigUri", state |-> "returned", resource |-> resource,
                     applicable |-> applicable, consulted |-> r.consulted,
                     result |-> r.result]
    /\ UNCHANGED lifecycle

\* provider.setPreference(...) is invoked on provider id: the invocation is
\* logged with the provider's standing at that moment.
Invocation(id, provs, crs) ==
    [id |-> id, disposed |-> crs[id].disposed > 0,
     registered |-> id \in SeqRange(IdsOf(provs))]

\* Variant of SetPreferenceStep: a successful write does not end the loop; the
\* call goes on to the next provider and reports success at the end.
SetPreferenceStepNoStop(c, outcome, provs, crs) ==
    LET outcomes == Append(c.outcomes, outcome)
        n == Len(c.invoked)
    IN  IF outcome = "throw"
        THEN [c EXCEPT !.outcomes = outcomes, !.state = "returned", !.result = "error"]
        ELSE IF n < Len(c.ranked)
        THEN [c EXCEPT !.outcomes = outcomes,
                       !.invoked = Append(@, Invocation(c.ranked[n + 1], provs, crs))]
        ELSE [c EXCEPT !.outcomes = outcomes, !.state = "returned",
                       !.result = IF \E i \in DOMAIN outcomes : outcomes[i] = "true"
                                  THEN "true" ELSE "false"]

\* Variant of SetPreferenceStep: a rejected write is caught and counted as a
\* write that reported false.
SetPreferenceStepCatches(c, outcome, provs, crs) ==
    LET outcomes == Append(c.outcomes, outcome)
        n == Len(c.invoked)
    IN  IF outcome = "true"
        THEN [c EXCEPT !.outcomes = outcomes, !.state = "returned", !.result = "true"]
        ELSE IF n < Len(c.ranked)
        THEN [c EXCEPT !.outcomes = outcomes,
                       !.invoked = Append(@, Invocation(c.ranked[n + 1], provs, crs))]
        ELSE [c EXCEPT !.outcomes = outcomes, !.state = "returned", !.result = "false"]

\* setPreference resumes after `await provider.setPreference(...)` (lines
\* 110-115): true returns true, false goes on to the next ranked provider or
\* returns false after the last, a rejection rejects the call.
SetPreferenceStep(c, outcome, provs, crs) ==
    LET outcomes == Append(c.outcomes, outcome)
        n == Len(c.invoked)
    IN  IF outcome = "throw"
        THEN [c EXCEPT !.outcomes = outcomes, !.state = "returned", !.result = "error"]
        ELSE IF outcome = "true"
        THEN [c EXCEPT !.outcomes = outcomes, !.state = "returned", !.result = "true"]
        ELSE IF n < Len(c.ranked)
        THEN [c EXCEPT !.outcomes = outcomes,
                       !.invoked = Append(@, Invocation(c.ranked[n + 1], provs, crs))]
        ELSE [c EXCEPT !.outcomes = outcomes, !.state = "returned", !.result = "false"]

\* A client calls setPreference(preferenceName, value, resourceUri): the ranking
\* is computed and the first ranked provider's write is invoked and awaited; with
\* an empty ranking the call returns false.
SetPreferenceCall ==
    /\ call.op = "none"
    /\ \E resource \in Resources, applicable \in Applicabilities :
         \E ranked \in {GetProviders(providers, created, resource, applicable)} :
            call' = [op |-> "setPreference", resource |-> resource,
                     applicable |-> applicable, ranked |-> ranked,
                     outcomes |-> <<>>,
                     state |-> IF ranked = <<>> THEN "returned" ELSE "awaiting",
                     invoked |-> IF ranked = <<>> THEN <<>>
                                 ELSE <<Invocation(ranked[1], providers, created)>>,
                     result |-> IF ranked = <<>> THEN "false" ELSE "pending"]
    /\ UNCHANGED lifecycle

\* The awaited write settles: it reports success, failure, or it throws.
SetPreferenceSettle ==
    /\ call.op = "setPreference"
    /\ call.state = "awaiting"
    /\ \E outcome \in {"true", "false", "throw"} :
         call' = SetPreferenceStep(call, outcome, providers, created)
    /\ UNCHANGED lifecycle

\* The observed call has returned to its caller.
Return ==
    /\ call.op # "none"
    /\ call.state = "returned"
    /\ call' = Idle
    /\ UNCHANGED lifecycle

Next ==
    \/ Startup
    \/ \E newRoots \in RootLists : WorkspaceChanged(newRoots)
    \/ DisposeCore
    \/ FireChange

Spec == Init /\ [][Next]_vars

\* The queries on the registry the startup reconciliation built.
NextQuery ==
    \/ Startup
    \/ GetProvidersCall
    \/ GetConfigUriCall
    \/ ResolveCall
    \/ GetPreferencesCall
    \/ SetPreferenceCall
    \/ SetPreferenceSettle
    \/ Return

SpecQuery == Init /\ [][NextQuery]_vars

\* The ranking on the registries the reconciliations of a changing workspace
\* leave behind.
NextOrder ==
    \/ Startup
    \/ \E newRoots \in RootLists : WorkspaceChanged(newRoots)
    \/ GetProvidersCall
    \/ Return

SpecOrder == Init /\ [][NextOrder]_vars

\* Root lists of two sibling folders.
ReadyRootLists == {r \in RootLists : SeqRange(r) \subseteq
                                       {Uri("file", <<"a">>), Uri("file", <<"c">>)}}

InitReady == Init /\ roots \in ReadyRootLists

\* Writes in a workspace of two sibling folders that changes while a write is
\* awaited.
NextWrite ==
    \/ Startup
    \/ \E newRoots \in ReadyRootLists : WorkspaceChanged(newRoots)
    \/ SetPreferenceCall
    \/ SetPreferenceSettle
    \/ Return

SpecWrite == InitReady /\ [][NextWrite]_vars

\* Readiness, in a workspace of two sibling folders. The reaction of
\* Promise.all(...).then(...) is a queued job: it runs once it can.
NextReady ==
    \/ Startup
    \/ \E newRoots \in ReadyRootLists : WorkspaceChanged(newRoots)
    \/ Settle
    \/ ReadyResolve

SpecReady == InitReady /\ [][NextReady]_vars /\ WF_vars(ReadyResolve)

\* ------------------------------------------------------------------ claims
RegistryIds == SeqRange(IdsOf(providers))
RootSet == SeqRange(roots)
FoldersIn(rootList) == SeqRange(rootList)

\* Identities of a folder: one per config directory and config file.
IdentitiesOf(folder) ==
    {UriToString(ConfigUriOf(folder, ConfigPaths[i], ConfigFileNames[j])) :
        i \in DOMAIN ConfigPaths, j \in DOMAIN ConfigFileNames}

\* C1: after every completed reconciliation the key set of the registry is
\* exactly the set of identities of the current roots x {.theia, .vscode} x
\* {launch.json, settings.json}, with one provider per identity and hence at
\* most 4 * F entries for F roots.
C1_RegistryMatchesRoots ==
    pc = "started" =>
        /\ SeqRange(KeysOf(providers)) = UNION {IdentitiesOf(f) : f \in RootSet}
        /\ \A i, j \in DOMAIN providers :
                providers[i].key = providers[j].key => i = j
        /\ \A i \in DOMAIN providers :
                UriToString(created[providers[i].id].configUri) = providers[i].key
        /\ Len(providers) <= 4 * Len(roots)

\* A reconciliation has removed a folder and registered another one.
C1_Witness ==
    /\ pc = "started"
    /\ roots # <<>>
    /\ \E id \in DOMAIN created : id \notin RegistryIds
    /\ \E id \in RegistryIds : id \notin readyPromises

\* Id registered under a key, 0 when the key is absent.
IdAt(provs, key) == IF HasKey(provs, key) THEN provs[GetId(provs, key)].id ELSE 0

\* C2: a reconciliation keeps, for every folder that is a root before and after
\* it, the same provider under each of the folder's four identities: the factory
\* builds no provider for these identities and none of them is disposed.
C2_IdentityPreserved ==
    [][(pc = "started" /\ roots' # roots) =>
        \A f \in RootSet \cap FoldersIn(roots') : \A key \in IdentitiesOf(f) :
            /\ IdAt(providers', key) = IdAt(providers, key)
            /\ IdAt(providers, key) # 0
            /\ \A id \in DOMAIN created' :
                   UriToString(created'[id].configUri) = key => id \in DOMAIN created
            /\ created'[IdAt(providers, key)].disposed
                   = created[IdAt(providers, key)].disposed]_vars

\* A provider of the startup reconciliation is still registered next to a
\* provider a later reconciliation built.
C2_Witness ==
    /\ pc = "started"
    /\ \E id \in RegistryIds : id \in readyPromises
    /\ \E id \in RegistryIds : id \notin readyPromises

\* C3: every provider a reconciliation removed from the registry has had its
\* dispose invoked exactly once, at every later point of the core's life
\* (later reconciliations, the folder being added again, dispose() of the core);
\* a provider replaced under its identity is thus never disposed again.
C3_RemovedDisposedOnce ==
    \A id \in DOMAIN created :
        id \notin RegistryIds => created[id].disposed = 1

\* ---- reference ranking (stated from the contract, not from the loop)
Rel(i, resource) == Relativity(created[providers[i].id].folder.path, resource.path)

\* Registry positions of the providers applicable to the resource whose folder
\* encloses it.
Candidates(resource, applicable) ==
    {i \in DOMAIN providers : providers[i].id \in applicable /\ Rel(i, resource) >= 0}

\* Those of maximal relativity.
TopCandidates(resource, applicable) ==
    {i \in Candidates(resource, applicable) :
        \A j \in Candidates(resource, applicable) : Rel(j, resource) <= Rel(i, resource)}

FolderAt(i) == created[providers[i].id].folder
\* Config directory of the provider at a registry position: folder + directory.
DirectoryAt(i) ==
    LET path == created[providers[i].id].configUri.path
    IN  <<FolderAt(i), path[Len(path) - 1]>>
FileAt(i) ==
    LET path == created[providers[i].id].configUri.path IN path[Len(path)]

SetMin(S) == CHOOSE x \in S : \A y \in S : x <= y

\* The group of the earliest top candidate, in registry order.
ReferenceRanking(resource, applicable) ==
    LET top == TopCandidates(resource, applicable)
    IN  IF resource = NoUri \/ top = {} THEN <<>>
        ELSE LET winner == DirectoryAt(SetMin(top))
                 members == {providers[i].id : i \in {j \in top : DirectoryAt(j) = winner}}
             IN  SelectSeq(IdsOf(providers), LAMBDA id : id \in members)

\* Registry position at which a folder was inserted.
FolderPosition(f) == SetMin({i \in DOMAIN providers : FolderAt(i) = f})

PositionOf(id) == CHOOSE i \in DOMAIN providers : providers[i].id = id

\* The registry without the candidates of lower relativity.
WithoutLower(resource, applicable) ==
    LET keep == {providers[i].id : i \in DOMAIN providers \
                    (Candidates(resource, applicable) \ TopCandidates(resource, applicable))}
    IN  SelectSeq(providers, LAMBDA e : e.id \in keep)

\* C4: getProviders returns the reference ranking: of the applicable providers
\* whose folder encloses the resource, those of maximal relativity, grouped by
\* config directory, the group whose first member is earliest in the registry,
\* in registry order (launch before settings). The result is the same with the
\* providers of lower relativity taken out of the registry, holds providers of
\* one folder and one config directory, and on a tie between folders is a group
\* of the folder inserted first.
C4_RankingIsReference ==
    call.op = "getProviders" =>
        LET top == TopCandidates(call.resource, call.applicable)
        IN  /\ call.result = ReferenceRanking(call.resource, call.applicable)
            /\ call.result = GetProviders(WithoutLower(call.resource, call.applicable),
                                          created, call.resource, call.applicable)
            /\ \A i, j \in DOMAIN call.result :
                   /\ DirectoryAt(PositionOf(call.result[i]))
                        = DirectoryAt(PositionOf(call.result[j]))
                   /\ (i < j => /\ FileAt(PositionOf(call.result[i])) = "launch.json"
                                /\ FileAt(PositionOf(call.result[j])) = "settings.json")
            /\ \A i \in DOMAIN call.result : \A j \in top :
                   FolderPosition(FolderAt(PositionOf(call.result[i])))
                       <= FolderPosition(FolderAt(j))

\* Two folders tie at the maximal relativity behind a folder of lower
\* relativity, and the ranking holds a launch and a settings provider.
C4_Witness ==
    /\ call.op = "getProviders"
    /\ Len(call.result) = 2
    /\ \E i, j \in TopCandidates(call.resource, call.applicable) :
          FolderAt(i) # FolderAt(j)

\* A ranking whose group is not the first of the registry: a folder of lower
\* relativity was inserted before the winning one.
C4_WitnessLower ==
    /\ call.op = "getProviders"
    /\ call.result # <<>>
    /\ \E i \in Candidates(call.resource, call.applicable) :
          i < PositionOf(call.result[1])

Defined(v) == v # "undefined" /\ v # "null"

\* C5: resolve returns the value of the first provider of the reference ranking
\* (launch, then settings, of the winning config directory) whose value is
\* neither undefined nor null, with that provider's config URI; it asks no
\* provider outside that group, and with no such value there the result is empty.
C5_ResolveFirstDefined ==
    call.op = "resolve" =>
        LET group == ReferenceRanking(call.resource, call.applicable)
            hits == {i \in DOMAIN group : Defined(call.answers[group[i]])}
        IN  /\ call.ranked = group
            /\ SeqRange(call.consulted) \subseteq SeqRange(group)
            /\ IF hits = {} THEN call.result = EmptyResult
               ELSE call.result =
                        [value |-> call.answers[group[SetMin(hits)]],
                         configUri |-> created[group[SetMin(hits)]].configUri]

\* The launch file holds null and the settings file of the same directory a
\* value, while the .vscode providers of the folder are applicable as well.
C5_Witness ==
    /\ call.op = "resolve"
    /\ Len(call.ranked) = 2
    /\ call.answers[call.ranked[1]] = "null"
    /\ call.result.value = "v1"
    /\ Cardinality(Candidates(call.resource, call.applicable)) > 2

\* Providers of a folder among the registered ones.
ProvidersOfFolder(f) == {providers[i].id : i \in {j \in DOMAIN providers : FolderAt(j) = f}}

Encloses(f, resource) == Relativity(f.path, resource.path) >= 0

\* C6: for two roots neither of which encloses the other and a resource only
\* the first encloses, resolve asks no provider of the second folder, returns no
\* config URI of it, and returns the same result whatever the second folder's
\* providers would answer.
C6_SiblingIsolation ==
    call.op = "resolve" =>
        \A f1, f2 \in RootSet :
            (/\ pc = "started"
             /\ Relativity(f1.path, f2.path) < 0 /\ Relativity(f2.path, f1.path) < 0
             /\ Encloses(f1, call.resource) /\ ~Encloses(f2, call.resource))
            => /\ SeqRange(call.consulted) \cap ProvidersOfFolder(f2) = {}
               /\ \A id \in ProvidersOfFolder(f2) :
                      call.result.configUri # created[id].configUri
               /\ \A other \in [DOMAIN call.answers -> Values] :
                      (\A id \in DOMAIN call.answers \ ProvidersOfFolder(f2) :
                          other[id] = call.answers[id])
                      => Resolve(call.ranked, created, other, <<>>).result = call.result

\* The sibling was inserted first and its providers report themselves applicable.
C6_Witness ==
    /\ call.op = "resolve"
    /\ pc = "started"
    /\ Len(roots) = 2
    /\ Relativity(roots[1].path, roots[2].path) < 0
    /\ Relativity(roots[2].path, roots[1].path) < 0
    /\ Encloses(roots[2], call.resource) /\ ~Encloses(roots[1], call.resource)
    /\ ProvidersOfFolder(roots[1]) \subseteq call.applicable
    /\ call.result.value = "v1"

\* C7: setPreference invokes the writes of the ranked providers in forward
\* order, each after the previous one reported false; it returns true at the
\* first success without a later invocation, and false only after every ranked
\* provider was invoked and reported false; at most one write succeeds.
C7_WriteStopsAtFirstSuccess ==
    call.op = "setPreference" =>
        /\ call.ranked = ReferenceRanking(call.resource, call.applicable)
        /\ Len(call.invoked) <= Len(call.ranked)
        /\ \A i \in DOMAIN call.invoked : call.invoked[i].id = call.ranked[i]
        /\ Len(call.outcomes) <= Len(call.invoked)
        /\ Len(call.invoked) <= Len(call.outcomes) + 1
        /\ \A i \in DOMAIN call.outcomes :
               i < Len(call.invoked) => call.outcomes[i] = "false"
        /\ Cardinality({i \in DOMAIN call.outcomes : call.outcomes[i] = "true"}) <= 1
        /\ call.state = "awaiting" <=> Len(call.invoked) = Len(call.outcomes) + 1
        /\ call.result = "true" <=>
               (call.outcomes # <<>> /\ call.outcomes[Len(call.outcomes)] = "true")
        /\ call.result = "false" <=>
               /\ call.state = "returned"
               /\ Len(call.invoked) = Len(call.ranked)
               /\ \A i \in DOMAIN call.outcomes : call.outcomes[i] = "false"

\* The launch provider's write succeeded while a settings provider was ranked
\* behind it.
C7_Witness ==
    /\ call.op = "setPreference"
    /\ Len(call.ranked) = 2
    /\ call.result = "true"
    /\ Len(call.invoked) = 1

\* Ranked providers that hold a key, by position in the ranking.
Holders(ranked, answers, k) == {i \in DOMAIN ranked : k \in DOMAIN answers[ranked[i]]}

\* C8: getPreferences returns the union of the keys of the ranked providers,
\* each with the value of the first ranked provider that holds it; it reads the
\* providers of the reference ranking and no other.
C8_MergedPreferences ==
    call.op = "getPreferences" =>
        /\ call.ranked = ReferenceRanking(call.resource, call.applicable)
        /\ SeqRange(call.consulted) = SeqRange(call.ranked)
        /\ DOMAIN call.result
               = UNION {DOMAIN call.answers[id] : id \in SeqRange(call.ranked)}
        /\ \A k \in DOMAIN call.result :
               call.result[k]
                   = call.answers[call.ranked[SetMin(Holders(call.ranked, call.answers, k))]][k]

\* launch holds {a: v1}, settings holds {a: v2, b: v2}; the result is {a: v1, b: v2}.
C8_Witness ==
    /\ call.op = "getPreferences"
    /\ Len(call.ranked) = 2
    /\ call.answers[call.ranked[1]] = [a |-> "v1"]
    /\ call.answers[call.ranked[2]] = [a |-> "v2", b |-> "v2"]
    /\ call.result = [a |-> "v1", b |-> "v2"]

\* The resource is absent, or no root encloses it, or no registered provider
\* is applicable to it.
NothingApplies ==
    \/ call.resource = NoUri
    \/ \A f \in RootSet : ~Encloses(f, call.resource)
    \/ call.applicable \cap RegistryIds = {}

\* C9: when nothing applies to the resource the ranking is empty, resolve
\* returns the empty result, getPreferences the empty mapping, setPreference
\* returns false without invoking a write, and no call fails.
C9_AbsenceIsEmpty ==
    (call.op # "none" /\ NothingApplies) =>
        /\ call.op = "getProviders" => call.result = <<>>
        /\ call.op = "resolve" =>
               call.ranked = <<>> /\ call.consulted = <<>> /\ call.result = EmptyResult
        /\ call.op = "getPreferences" =>
               call.ranked = <<>> /\ call.consulted = <<>> /\ call.result = <<>>
        /\ call.op = "setPreference" =>
               /\ call.ranked = <<>> /\ call.invoked = <<>> /\ call.outcomes = <<>>
               /\ call.state = "returned" /\ call.result = "false"

\* A write for a resource outside every root, with applicable providers registered.
C9_Witness ==
    /\ call.op = "setPreference"
    /\ pc = "started"
    /\ call.resource # NoUri
    /\ \A f \in RootSet : ~Encloses(f, call.resource)
    /\ Cardinality(call.applicable) = 8
    /\ call.result = "false"

Settled(id) == created[id].ready \in {"resolved", "rejected"}

\* C10: _ready resolves only when the ready promise of every provider the
\* startup reconciliation registered has settled, a rejection counting as
\* settled; and once they all have settled _ready does resolve, whatever the
\* workspace does in between.
C10_AggregateReadiness ==
    /\ [](ready = "resolved" => \A id \in readyPromises : Settled(id))
    /\ [][(pc = "awaitRoots" /\ pc' = "started") => readyPromises' = RegistryIds']_vars
    /\ [][pc = "started" => readyPromises' = readyPromises]_vars
    /\ (pc = "started" /\ \A id \in readyPromises : Settled(id)) ~> (ready = "resolved")

\* _ready has resolved although a startup provider's ready promise rejected and
\* a workspace change removed a startup provider and registered a new one.
C10_Witness ==
    /\ ready = "resolved"
    /\ \E id \in readyPromises : created[id].ready = "rejected"
    /\ \E id \in readyPromises : id \notin RegistryIds
    /\ \E id \in RegistryIds : id \notin readyPromises /\ created[id].ready = "pending"

\* C11: every change a provider in the registry fires is emitted by the core
\* exactly once, with the payload the provider fired, whether the startup
\* reconciliation or a later one created the provider.
C11_ChangeForwardedOnce ==
    (notification.source # 0 /\ notification.registered) =>
        notification.emitted = <<notification.change>>

\* A provider a later reconciliation created has fired, next to providers of
\* the startup reconciliation, and the core has emitted the change.
C11_Witness ==
    /\ notification.source # 0
    /\ notification.registered
    /\ notification.source \notin readyPromises
    /\ readyPromises \cap RegistryIds # {}
    /\ notification.emitted = <<notification.change>>

\* The same for a provider of the startup reconciliation.
C11_WitnessStartup ==
    /\ notification.source # 0
    /\ notification.registered
    /\ notification.source \in readyPromises
    /\ notification.emitted = <<notification.change>>

\* Identities in the order updateProviders enumerates them for a root list.
EnumerationOrder(rootList) ==
    [i \in DOMAIN DesiredUris(rootList) |-> UriToString(DesiredUris(rootList)[i].configUri)]

\* C12: after every reconciliation the iteration order of the registry is the
\* order in which the current root list is enumerated, composed with the nested
\* (directory, file) iteration, also after roots were reordered or removed and
\* added again.
C12_RegistryInEnumerationOrder ==
    pc = "started" => KeysOf(providers) = EnumerationOrder(roots)

\* The four identities of a folder: .theia before .vscode, and in each
\* directory launch.json before settings.json.
FolderOrder(f) ==
    << UriToString(Uri(f.scheme, f.path \o <<".theia", "launch.json">>)),
       UriToString(Uri(f.scheme, f.path \o <<".theia", "settings.json">>)),
       UriToString(Uri(f.scheme, f.path \o <<".vscode", "launch.json">>)),
       UriToString(Uri(f.scheme, f.path \o <<".vscode", "settings.json">>)) >>

\* Registry keys of a folder, in registry order.
KeysOfFolder(f) ==
    SelectSeq(KeysOf(providers), LAMBDA k : k \in SeqRange(FolderOrder(f)))

\* Id registered for a folder under a directory and a file name.
IdOf(f, directory, file) ==
    IdAt(providers, UriToString(Uri(f.scheme, f.path \o <<directory, file>>)))

\* C13: whatever reconciliations ran, the four providers of a folder stand in
\* the registry as .theia/launch.json, .theia/settings.json, .vscode/launch.json,
\* .vscode/settings.json; and for a resource a single root encloses, with all
\* four providers of that root applicable, getProviders returns the .theia group.
C13_PrimaryDirectoryFirst ==
    /\ \A f \in Folders :
          KeysOfFolder(f) = IF f \in RootSet /\ pc = "started" THEN FolderOrder(f) ELSE <<>>
    /\ call.op = "getProviders" =>
          \A f \in RootSet :
              (/\ pc = "started"
               /\ call.resource # NoUri
               /\ \A g \in RootSet : Encloses(g, call.resource) <=> g = f
               /\ ProvidersOfFolder(f) \subseteq call.applicable)
              => call.result = << IdOf(f, ".theia", "launch.json"),
                                  IdOf(f, ".theia", "settings.json") >>

\* The ranking was asked for a resource of a folder that a reconciliation added
\* after startup behind a folder that stayed, and it returned the .theia group.
C13_Witness ==
    /\ call.op = "getProviders"
    /\ Len(roots) = 2
    /\ ProvidersOfFolder(roots[1]) \cap readyPromises = {}
    /\ ProvidersOfFolder(roots[2]) \subseteq readyPromises
    /\ Encloses(roots[1], call.resource) /\ ~Encloses(roots[2], call.resource)
    /\ call.applicable = RegistryIds
    /\ call.result = << IdOf(roots[1], ".theia", "launch.json"),
                        IdOf(roots[1], ".theia", "settings.json") >>

\* Registry positions of the applicable providers whose file is settings.json.
ApplicableSettings(applicable) ==
    {i \in DOMAIN providers : providers[i].id \in applicable /\ FileAt(i) = "settings.json"}

\* C14: getConfigUri asks the registered providers in registry order, ranked or
\* not, up to the first applicable provider of a settings file, and returns
\* that provider's config URI; it never returns the URI of a launch file and it
\* returns none exactly when no applicable provider of a settings file exists.
C14_FirstApplicableSettings ==
    call.op = "getConfigUri" =>
        LET S == ApplicableSettings(call.applicable)
        IN  /\ (call.result = NoUri) <=> (S = {})
            /\ S # {} =>
                  /\ call.result = created[providers[SetMin(S)].id].configUri
                  /\ call.consulted = SubSeq(IdsOf(providers), 1, SetMin(S))
            /\ S = {} => call.consulted = IdsOf(providers)
            /\ call.result # NoUri =>
                  call.result.path[Len(call.result.path)] = "settings.json"

\* The scan passed an applicable launch file and a settings file that is not
\* applicable, and returned a settings file the ranking does not select.
C14_Witness ==
    /\ call.op = "getConfigUri"
    /\ call.result # NoUri
    /\ Len(call.consulted) > 2
    /\ call.consulted[1] \in call.applicable
    /\ call.consulted[2] \notin call.applicable
    /\ \E id \in call.applicable : id \notin SeqRange(call.consulted)
    /\ call.consulted[Len(call.consulted)]
          \notin SeqRange(GetProviders(providers, created, call.resource, call.applicable))

\* C15: when the write of a ranked provider throws, setPreference does not
\* catch it: the call ends with the error, the throwing write is the last one
\* invoked, and no provider ranked after it is written to.
C15_ThrowAbortsWrite ==
    call.op = "setPreference" =>
        \A i \in DOMAIN call.outcomes :
            call.outcomes[i] = "throw" =>
                /\ call.state = "returned"
                /\ call.result = "error"
                /\ i = Len(call.outcomes)
                /\ Len(call.invoked) = i
                /\ \A j \in 1..i : call.invoked[j].id = call.ranked[j]

\* The first of two ranked providers threw.
C15_Witness ==
    /\ call.op = "setPreference"
    /\ Len(call.ranked) = 2
    /\ call.outcomes = <<"throw">>
    /\ call.result = "error"
    /\ Len(call.invoked) = 1

\* C16: setPreference never invokes the write of a provider that is disposed
\* or no longer in the registry, also when a workspace change is reconciled
\* while the call awaits the write of an earlier provider.
C16_NoWriteToRemoved ==
    call.op = "setPreference" =>
        \A i \in DOMAIN call.invoked :
            ~call.invoked[i].disposed /\ call.invoked[i].registered

\* C17: a URI getConfigUri returns for a resource is the settings file of the
\* config directory whose providers getProviders returns for the same resource
\* and the same answers of the providers, in every registry.
C17_ConfigUriOfRankedGroup ==
    (call.op = "getConfigUri" /\ call.result # NoUri) =>
        LET ranked == GetProviders(providers, created, call.resource, call.applicable)
        IN  /\ ranked # <<>>
            /\ ParentUri(call.result) = ParentUri(created[ranked[1]].configUri)

\* The same, for nested roots with every registered provider applicable.
C17_NestedRoots ==
    (/\ call.op = "getConfigUri" /\ call.result # NoUri
     /\ roots = <<Uri("file", <<"a">>), Uri("file", <<"a", "b">>)>>
     /\ call.resource = Uri("file", <<"a", "b", "x">>)
     /\ call.applicable = RegistryIds) =>
        LET ranked == GetProviders(providers, created, call.resource, call.applicable)
        IN  /\ ranked # <<>>
            /\ ParentUri(call.result) = ParentUri(created[ranked[1]].configUri)

\* What a provider's single-key lookup returns when it reads its own set of
\* preferences: the value held under the key, undefined without the key.
PreferenceOf(prefs, k) == IF k \in DOMAIN prefs THEN prefs[k] ELSE "undefined"

\* C18: resolve and getPreferences agree: for every resource and key, the
\* value resolve returns is the value getPreferences holds under the key, when
\* every provider's lookup of the key returns what its set of preferences
\* holds, also when a provider ranked higher holds the key with null and one
\* ranked lower holds it with a value.
C18_ResolveAgreesWithGetPreferences ==
    call.op = "getPreferences" =>
        \A k \in Keys :
            LET lookups == [id \in SeqRange(call.ranked) |->
                               PreferenceOf(call.answers[id], k)]
            IN  Resolve(call.ranked, created, lookups, <<>>).result.value
                    = PreferenceOf(call.result, k)

\* C19: what toDispose holds, providers and subscriptions to their change
\* events, belongs to providers in the registry: a reconciliation that removes
\* a provider releases both, and toDispose holds at most two entries per
\* registered provider.
C19_DisposablesOfRegistered ==
    /\ \A i \in DOMAIN toDispose : toDispose[i].id \in RegistryIds
    /\ Len(toDispose) <= 2 * Len(providers)

\* C20: whenever _ready is resolved, the ready promise of every provider in
\* the registry has settled, the providers later reconciliations created
\* included.
C20_ReadyCoversRegistry ==
    ready = "resolved" => \A id \in RegistryIds : created[id].ready # "pending"

====
